---- MODULE Spec2Model ----
(***************************************************************************)
(* State-machine model of flower-service (src/src/main.rs):                *)
(*   - modify_image: the image composition pipeline (scale, canvas,        *)
(*     placement, rounded corners, caption strip, caption placement);      *)
(*   - main: the daily rotation loop with its persisted index/timestamp.   *)
(*                                                                         *)
(* Buffers are kept exactly but sparsely: the canvas is the ordered list   *)
(* of region writes made so far (a pixel is what the last write covering   *)
(* it stored), the caption strip is the set of inked coordinates.  Colour  *)
(* channels are kept as the name of the colour a pixel carries; alpha is   *)
(* kept as its 8-bit value.  f32 arithmetic is IEEE-754 single precision   *)
(* with round-to-nearest-even, carried out on integers.                    *)
(***************************************************************************)
EXTENDS Integers, Sequences, FiniteSets, TLC

(***************************************************************************)
(* Program constants of modify_image.                                      *)
(***************************************************************************)
MARGIN == 50
BOTTOM_EXTRA_MARGIN == 150
CANVAS_WIDTH == 2560
CANVAS_HEIGHT == 1530
IMAGE_BOX_WIDTH == CANVAS_WIDTH - 2 * MARGIN
IMAGE_BOX_HEIGHT == CANVAS_HEIGHT - 2 * MARGIN - BOTTOM_EXTRA_MARGIN
TEXT_SIZE == 60
CORNER_RADIUS == 50
STRIP_HEIGHT == TEXT_SIZE + 8

(***************************************************************************)
(* u32 values.  TLC integers are 32-bit signed, so a u32 that wrapped      *)
(* below zero (v + 2^32 for v in -2^31..-1, always >= 2^31) is kept as the *)
(* largest representable integer; it is only ever compared with buffer     *)
(* dimensions and other u32 values, all of which it exceeds either way.    *)
(***************************************************************************)
U32Wrapped == 2^30 + (2^30 - 1)
AsU32(v) == IF v < 0 THEN U32Wrapped ELSE v
Max(a, b) == IF a >= b THEN a ELSE b

(***************************************************************************)
(* f32: a positive single-precision value is [m, k] standing for m / 2^k,  *)
(* with a 24-bit significand 2^23 <= m < 2^24 once normalised.             *)
(***************************************************************************)
RECURSIVE DivBits(_, _, _, _)
DivBits(q, r, b, k) ==
    IF q >= 2^23 THEN [q |-> q, r |-> r, k |-> k]
    ELSE DivBits(2 * q + (IF 2 * r >= b THEN 1 ELSE 0), (2 * r) % b, b, k + 1)

\* a as f32 / b as f32 for integers 1 <= a, b < 2^12 (both exact in f32),
\* correctly rounded to nearest, ties to even.
F32Div(a, b) ==
    LET d  == DivBits(a \div b, a % b, b, 0)
        up == 2 * d.r > b \/ (2 * d.r = b /\ d.q % 2 = 1)
        m  == IF up THEN d.q + 1 ELSE d.q
    IN  IF m = 2^24 THEN [m |-> 2^23, k |-> d.k - 1] ELSE [m |-> m, k |-> d.k]

\* f32::min of two normalised positive values.
F32Min(a, b) ==
    IF a.k > b.k \/ (a.k = b.k /\ a.m <= b.m) THEN a ELSE b

RECURSIVE BitLen(_)
BitLen(n) == IF n = 0 THEN 0 ELSE 1 + BitLen(n \div 2)

\* (w as f32) * s for an integer 1 <= w < 2^12, correctly rounded.  The exact
\* product w * s.m has up to 36 bits and is kept in two 12-bit-aligned limbs.
F32MulInt(w, s) ==
    LET mh == s.m \div 4096
        ml == s.m % 4096
        lo == w * ml
        Xl == lo % 4096
        Xh == w * mh + lo \div 4096
    IN  IF Xh < 4096 THEN [m |-> Xh * 4096 + Xl, k |-> s.k]
        ELSE LET d  == BitLen(Xh) - 12
                 M  == Xh * 2^(12 - d) + Xl \div 2^d
                 R  == Xl % 2^d
                 up == 2 * R > 2^d \/ (2 * R = 2^d /\ M % 2 = 1)
             IN  [m |-> IF up THEN M + 1 ELSE M, k |-> s.k - d]

\* Rounding to the nearest integer where the cast truncates.
F32RoundedToU32(f) ==
    IF f.k > 30 THEN 0
    ELSE IF f.k >= 1 THEN (f.m + 2^(f.k - 1)) \div 2^(f.k)
    ELSE f.m * 2^(-f.k)

\* `f as u32` for a non-negative f32 below 2^24: truncation toward zero.
F32AsU32(f) ==
    IF f.k > 30 THEN 0
    ELSE IF f.k >= 0 THEN f.m \div 2^(f.k)
    ELSE f.m * 2^(-f.k)

\* lines 97-100
scale_factor(w, h) ==
    F32Min(F32Div(IMAGE_BOX_WIDTH, w), F32Div(IMAGE_BOX_HEIGHT, h))

\* lines 102-103
ScaledDim(side, w, h) == F32AsU32(F32MulInt(side, scale_factor(w, h)))

\* lines 144-145
ImageXOffset(sw) == (CANVAS_WIDTH - sw) \div 2
\* Centring in the full canvas height, the caption margin forgotten.
ImageYOffsetFullHeight(sh) == (CANVAS_HEIGHT - sh) \div 2
ImageYOffset(sh) == (CANVAS_HEIGHT - sh - BOTTOM_EXTRA_MARGIN) \div 2

(***************************************************************************)
(* Corner mask tile (lines 113-132).  The tile pixel (x, y) carries the    *)
(* off-white colour and alpha                                              *)
(*     ((sqrt(x*x + y*y) - R + 0.5).clamp(0, 1) * 255) as u8               *)
(* With n = x*x + y*y this is 0 up to sqrt(n) = R - 1/2, 255 from          *)
(* sqrt(n) = R + 1/2 on, and in between the largest a with                 *)
(* a/255 + R - 1/2 <= sqrt(n); squared and cleared of fractions these are  *)
(* the integer tests below.  (The f32 evaluation agrees with the exact     *)
(* value on all R*R tile pixels.)                                          *)
(***************************************************************************)
corner_mask(x, y) ==
    LET n     == x * x + y * y
        base  == 255 * (2 * CORNER_RADIUS - 1)
        ok(a) == (2 * a + base) * (2 * a + base) <= 510 * 510 * n
    IN  IF 4 * n <= (2 * CORNER_RADIUS - 1) * (2 * CORNER_RADIUS - 1) THEN 0
        ELSE IF 4 * n >= (2 * CORNER_RADIUS + 1) * (2 * CORNER_RADIUS + 1) THEN 255
        ELSE CHOOSE a \in 0..254 : ok(a) /\ ~ok(a + 1)

(***************************************************************************)
(* Pixels: the colour carried, the alpha channel, and (for a pixel written *)
(* by apply_mask) the mask tile index that was blended into it.            *)
(***************************************************************************)
NoTile == <<>>
off_white == [color |-> "off_white", a |-> 255, tile |-> NoTile]
Black == [color |-> "black", a |-> 255, tile |-> NoTile]

\* lines 60-72.  new_a is 255; the colour is the input's for mask alpha 0,
\* the mask's for mask alpha 255 and a mix of the two in between.
apply_mask_alpha(input_a, mask_a) == 255
apply_mask(input, mask_a, tile) ==
    [color |-> IF mask_a = 0 THEN input.color
               ELSE IF mask_a = 255 THEN "off_white" ELSE "blend",
     a     |-> apply_mask_alpha(input.a, mask_a),
     tile  |-> tile]

Corners == {"tl", "tr", "br", "bl"}

\* `scaled - CORNER_RADIUS` in u32 (lines 166, 174, 175, 186).
CornerStart(scaled) == AsU32(scaled - CORNER_RADIUS)

\* The image rectangle one corner loop runs over: x0 <= x < x1, y0 <= y < y1
\* (lines 156-157, 165-166, 174-175, 186-187).
CornerRect(c, sw, sh) ==
    [x0 |-> IF c \in {"tl", "bl"} THEN 0 ELSE CornerStart(sw),
     x1 |-> IF c \in {"tl", "bl"} THEN CORNER_RADIUS ELSE sw,
     y0 |-> IF c \in {"tl", "tr"} THEN 0 ELSE CornerStart(sh),
     y1 |-> IF c \in {"tl", "tr"} THEN CORNER_RADIUS ELSE sh]

\* Every loop indexing the tile the way the top-left loop does, measured
\* from its own rectangle's origin.
MaskIndexAsTopLeft(c, x, y, sw, sh) ==
    << CORNER_RADIUS - (x - CornerRect(c, sw, sh).x0 + 1),
       CORNER_RADIUS - (y - CornerRect(c, sw, sh).y0 + 1) >>

\* The corner_mask.get_pixel index of each loop (lines 160, 169, 178-181, 190-191).
MaskIndex(c, x, y, sw, sh) ==
    << IF c \in {"tl", "bl"} THEN CORNER_RADIUS - (x + 1) ELSE x - (sw - CORNER_RADIUS),
       IF c \in {"tl", "tr"} THEN CORNER_RADIUS - (y + 1) ELSE y - (sh - CORNER_RADIUS) >>

(***************************************************************************)
(* Caption glyphs as the font rasteriser hands them over: whether the      *)
(* glyph has a pixel bounding box, the box's min corner, and the box-local *)
(* coordinates the draw callback reports with coverage v > 0.5.            *)
(***************************************************************************)
Glyph(mx, my, ink) == [bb |-> TRUE, min_x |-> mx, min_y |-> my, ink |-> ink]
Space == [bb |-> FALSE, min_x |-> 0, min_y |-> 0, ink |-> {}]

\* lines 227-228
StripX(g, p) == AsU32(p[1] + g.min_x + 2)
StripY(g, p) == AsU32(p[2] + g.min_y + 2)
GlyphPixels(g) == {<<StripX(g, p), StripY(g, p)>> : p \in g.ink}
InStrip(q) == q[1] < CANVAS_WIDTH /\ q[2] < STRIP_HEIGHT

RECURSIVE SetMax(_)
SetMax(S) ==
    IF S = {} THEN 0
    ELSE LET v == CHOOSE v \in S : TRUE IN Max(v, SetMax(S \ {v}))

\* lines 239-240
text_offset_x(mx) == (CANVAS_WIDTH - mx) \div 2
text_offset_y(yo, sh) == yo + sh + MARGIN \div 2

\* The strip rectangle copied onto the canvas (lines 243-244).
TextCopyWidth(mx) == mx
TextCopyHeight == TEXT_SIZE

(***************************************************************************)
(* Inputs of one modify_image call: the decoded source image (its size and *)
(* the alpha its pixels carry), the caption's glyphs, and the build        *)
(* profile (overflow checks are on in a debug build, off in release).      *)
(***************************************************************************)
MaxSide == 24

SmallSizes == (1..MaxSide) \X (1..MaxSide)
SpecialSizes ==
    { <<4000, 3000>>, <<2460, 1280>>, <<69, 19>>, <<100, 133>>, <<41, 205>>,
      <<61, 305>>, <<1, 26>>, <<1, 100>>, <<1, 2000>>, <<2000, 1>>, <<60, 1>>,
      <<49, 1>>, <<3, 80>>, <<4095, 4095>>, <<1920, 1080>>, <<123, 64>> }
Sizes == SmallSizes \cup SpecialSizes
Alphas == {0, 128, 255}

GlyphR == Glyph(0, 10, {<<0, 0>>, <<20, 30>>})
GlyphO == Glyph(30, 8, {<<0, 5>>, <<25, 40>>})
GlyphDescender == Glyph(60, 25, {<<0, 0>>, <<3, 38>>})
GlyphAtRightEdge == Glyph(2540, 10, {<<0, 0>>, <<17, 3>>})
GlyphPastRightEdge == Glyph(2550, 10, {<<0, 0>>, <<9, 3>>})
GlyphAboveStrip == Glyph(5, -6, {<<0, 0>>, <<2, 9>>})
GlyphBelowStrip == Glyph(5, 62, {<<0, 0>>, <<1, 5>>})
GlyphLeftOfStrip == Glyph(-5, 10, {<<0, 0>>, <<6, 2>>})

Captions ==
    { <<>>, <<GlyphR>>, <<GlyphR, GlyphO>>, <<GlyphR, Space, GlyphO>>,
      <<GlyphR, GlyphO, GlyphDescender>>, <<GlyphR, GlyphAtRightEdge>>,
      <<GlyphR, GlyphPastRightEdge>>, <<GlyphAboveStrip, GlyphO>>,
      <<GlyphR, GlyphBelowStrip>>, <<GlyphLeftOfStrip>>, <<Space>> }

Input(sz, a, cap, dbg) ==
    [w |-> sz[1], h |-> sz[2], alpha |-> a, caption |-> cap, debug |-> dbg]

Inputs ==
    { Input(sz, a, <<GlyphR, GlyphO>>, dbg) :
          sz \in Sizes, a \in {255}, dbg \in BOOLEAN }
    \cup
    { Input(sz, a, cap, FALSE) :
          sz \in {<<4000, 3000>>, <<3, 4>>, <<30, 7>>}, a \in Alphas, cap \in Captions }

VARIABLES
    pc,                \* position in modify_image
    img,               \* the decoded source: [w, h, alpha, caption, debug]
    scaled_width, scaled_height,
    resized_img,       \* [w, h, a]: size and pixel alpha of the resized image
    image_x_offset, image_y_offset,
    canvas,            \* the region writes made to the canvas, oldest first
    glyph_idx,         \* number of caption glyphs already drawn
    text_canvas,       \* strip coordinates painted black
    max_x,
    fault              \* the panic that ended the call, if any

pipeVars == << pc, img, scaled_width, scaled_height, resized_img, image_x_offset,
               image_y_offset, canvas, glyph_idx, text_canvas, max_x, fault >>

NoFault == [kind |-> "none", stage |-> "none", x |-> 0, y |-> 0]
Panic(kind, stage, x, y) == [kind |-> kind, stage |-> stage, x |-> x, y |-> y]

Layer(kind, x0, y0, w, h) == [kind |-> kind, x0 |-> x0, y0 |-> y0, w |-> w, h |-> h]
Covers(l, x, y) == l.x0 <= x /\ x < l.x0 + l.w /\ l.y0 <= y /\ y < l.y0 + l.h

\* resized_img.get_pixel(x, y): the resampled source pixel.
ResizedPixel(x, y) == [color |-> "photo", a |-> resized_img.a, tile |-> NoTile]

\* line 150-151: the pixel stored for image coordinate (x, y).
PlacedPixel(x, y) == ResizedPixel(x, y)

\* lines 158-162 and the three loops after it: the pixel stored by corner
\* loop c for image coordinate (x, y).
CornerPixel(c, x, y) ==
    LET t == MaskIndex(c, x, y, scaled_width, scaled_height)
    IN  apply_mask(ResizedPixel(x, y), corner_mask(t[1], t[2]), t)

\* text_canvas.get_pixel(x, y)
StripPixel(x, y) == IF <<x, y>> \in text_canvas THEN Black ELSE off_white

LayerPixel(l, x, y) ==
    CASE l.kind = "fill"   -> off_white
      [] l.kind = "image"  -> PlacedPixel(x - l.x0, y - l.y0)
      [] l.kind \in Corners ->
             CornerPixel(l.kind, x - image_x_offset, y - image_y_offset)
      [] l.kind = "text"   -> StripPixel(x - l.x0, y - l.y0)

\* RgbaImage::new gives zeroed pixels; every later write replaces the pixel.
RECURSIVE Resolve(_, _, _, _)
Resolve(cv, i, x, y) ==
    IF i = 0 THEN [color |-> "zero", a |-> 0, tile |-> NoTile]
    ELSE IF Covers(cv[i], x, y) THEN LayerPixel(cv[i], x, y)
    ELSE Resolve(cv, i - 1, x, y)

\* canvas.get_pixel(x, y)
CanvasPixel(x, y) == Resolve(canvas, Len(canvas), x, y)

InCanvas(l) == l.x0 + l.w <= CANVAS_WIDTH /\ l.y0 + l.h <= CANVAS_HEIGHT

(***************************************************************************)
(* Panics of the corner loops.  A loop over an empty range touches         *)
(* nothing; otherwise resized_img.get_pixel panics at the first coordinate *)
(* outside the resized image.  `scaled - CORNER_RADIUS` below zero panics  *)
(* with overflow checks on and wraps (giving an empty range) without.      *)
(***************************************************************************)
CornerOverflows(c, sw, sh) ==
    \/ c \in {"tr", "br"} /\ sw < CORNER_RADIUS
    \/ c \in {"br", "bl"} /\ sh < CORNER_RADIUS

CornerLoopEmpty(c, sw, sh) ==
    LET r == CornerRect(c, sw, sh) IN r.x0 >= r.x1 \/ r.y0 >= r.y1

CornerReadsInside(c, sw, sh) ==
    LET r == CornerRect(c, sw, sh)
    IN  CornerLoopEmpty(c, sw, sh) \/ (r.x1 <= sw /\ r.y1 <= sh)

\* The first coordinate (rows outermost) of a corner loop that lies outside
\* the resized image.
FirstOutside(c, sw, sh) ==
    LET r == CornerRect(c, sw, sh)
    IN  IF sh <= r.y0 THEN <<r.x0, r.y0>>
        ELSE IF r.x1 > sw THEN <<Max(sw, r.x0), r.y0>>
        ELSE <<r.x0, sh>>

\* Whether modify_image runs to completion on an input.
ModifyImageCompletes(in) ==
    LET sw == ScaledDim(in.w, in.w, in.h)
        sh == ScaledDim(in.h, in.w, in.h)
    IN  /\ \A c \in Corners :
              /\ CornerReadsInside(c, sw, sh)
              /\ ~(in.debug /\ CornerOverflows(c, sw, sh))
        /\ \A i \in 1..Len(in.caption) :
              \A q \in GlyphPixels(in.caption[i]) : InStrip(q)

(***************************************************************************)
(* modify_image, stage by stage.                                           *)
(***************************************************************************)
\* lines 96-103
Scale ==
    /\ pc = "open"
    /\ scaled_width' = ScaledDim(img.w, img.w, img.h)
    /\ scaled_height' = ScaledDim(img.h, img.w, img.h)
    /\ pc' = "scaled"
    /\ UNCHANGED << img, resized_img, image_x_offset, image_y_offset, canvas,
                    glyph_idx, text_canvas, max_x, fault >>

\* lines 106-111: the resized image has the scaled size; resampling an
\* image of uniform alpha keeps that alpha.
Resize ==
    /\ pc = "scaled"
    /\ resized_img' = [w |-> scaled_width, h |-> scaled_height, a |-> img.alpha]
    /\ pc' = "resized"
    /\ UNCHANGED << img, scaled_width, scaled_height, image_x_offset,
                    image_y_offset, canvas, glyph_idx, text_canvas, max_x, fault >>

\* lines 113-145: the mask tile, the off-white canvas, the offsets
BuildCanvas ==
    /\ pc = "resized"
    /\ canvas' = << Layer("fill", 0, 0, CANVAS_WIDTH, CANVAS_HEIGHT) >>
    /\ image_x_offset' = ImageXOffset(scaled_width)
    /\ image_y_offset' = ImageYOffset(scaled_height)
    /\ pc' = "canvas"
    /\ UNCHANGED << img, scaled_width, scaled_height, resized_img, glyph_idx,
                    text_canvas, max_x, fault >>

\* lines 148-153
PlaceImage ==
    /\ pc = "canvas"
    /\ LET l == Layer("image", image_x_offset, image_y_offset,
                      scaled_width, scaled_height)
       IN  IF InCanvas(l)
           THEN /\ canvas' = Append(canvas, l)
                /\ pc' = "tl"
                /\ fault' = fault
           ELSE /\ pc' = "panic"
                /\ fault' = Panic("put_pixel", "place", l.x0 + l.w - 1, l.y0 + l.h - 1)
                /\ canvas' = canvas
    /\ UNCHANGED << img, scaled_width, scaled_height, resized_img, image_x_offset,
                    image_y_offset, glyph_idx, text_canvas, max_x >>

AfterCorner(c) ==
    CASE c = "tl" -> "tr" [] c = "tr" -> "br" [] c = "br" -> "bl" [] c = "bl" -> "text"

\* lines 156-164 (tl), 165-173 (tr), 174-185 (br), 186-195 (bl)
Corner(c) ==
    /\ pc = c
    /\ LET sw == scaled_width
           sh == scaled_height
           r  == CornerRect(c, sw, sh)
           l  == Layer(c, image_x_offset + r.x0, image_y_offset + r.y0,
                       r.x1 - r.x0, r.y1 - r.y0)
       IN  IF img.debug /\ CornerOverflows(c, sw, sh)
           THEN /\ pc' = "panic"
                /\ fault' = Panic("subtract_overflow", c, 0, 0)
                /\ canvas' = canvas
           ELSE IF CornerLoopEmpty(c, sw, sh)
           THEN /\ pc' = AfterCorner(c)
                /\ UNCHANGED << canvas, fault >>
           ELSE IF ~CornerReadsInside(c, resized_img.w, resized_img.h)
           THEN /\ pc' = "panic"
                /\ fault' = Panic("get_pixel", c, FirstOutside(c, sw, sh)[1],
                                  FirstOutside(c, sw, sh)[2])
                /\ canvas' = canvas
           ELSE IF ~InCanvas(l)
           THEN /\ pc' = "panic"
                /\ fault' = Panic("put_pixel", c, l.x0 + l.w - 1, l.y0 + l.h - 1)
                /\ canvas' = canvas
           ELSE /\ canvas' = Append(canvas, l)
                /\ pc' = AfterCorner(c)
                /\ fault' = fault
    /\ UNCHANGED << img, scaled_width, scaled_height, resized_img, image_x_offset,
                    image_y_offset, glyph_idx, text_canvas, max_x >>

\* lines 219-235, one glyph of the layout: a glyph without a bounding box is
\* skipped; max_x is raised and the pixel painted for every covered pixel;
\* text_canvas.put_pixel panics on a coordinate outside the strip.
DrawGlyph ==
    /\ pc = "text"
    /\ glyph_idx < Len(img.caption)
    /\ LET g   == img.caption[glyph_idx + 1]
           px  == IF g.bb THEN GlyphPixels(g) ELSE {}
           bad == {q \in px : ~InStrip(q)}
       IN  IF bad = {}
           THEN /\ text_canvas' = text_canvas \cup px
                /\ max_x' = Max(max_x, SetMax({q[1] : q \in px}))
                /\ glyph_idx' = glyph_idx + 1
                /\ UNCHANGED << pc, fault >>
           ELSE /\ pc' = "panic"
                /\ \E q \in bad : fault' = Panic("put_pixel", "draw_glyph", q[1], q[2])
                /\ UNCHANGED << text_canvas, max_x, glyph_idx >>
    /\ UNCHANGED << img, scaled_width, scaled_height, resized_img, image_x_offset,
                    image_y_offset, canvas >>

\* lines 238-248
PlaceText ==
    /\ pc = "text"
    /\ glyph_idx = Len(img.caption)
    /\ LET l == Layer("text", text_offset_x(max_x),
                      text_offset_y(image_y_offset, scaled_height),
                      TextCopyWidth(max_x), TextCopyHeight)
       IN  IF l.w > CANVAS_WIDTH \/ l.h > STRIP_HEIGHT
           THEN /\ pc' = "panic"
                /\ fault' = Panic("get_pixel", "place_text", l.w - 1, l.h - 1)
                /\ canvas' = canvas
           ELSE IF l.w > 0 /\ ~InCanvas(l)
           THEN /\ pc' = "panic"
                /\ fault' = Panic("put_pixel", "place_text", l.x0 + l.w - 1, l.y0 + l.h - 1)
                /\ canvas' = canvas
           ELSE /\ canvas' = Append(canvas, l)
                /\ pc' = "placed"
                /\ fault' = fault
    /\ UNCHANGED << img, scaled_width, scaled_height, resized_img, image_x_offset,
                    image_y_offset, glyph_idx, text_canvas, max_x >>

\* line 251
Save ==
    /\ pc = "placed"
    /\ pc' = "saved"
    /\ UNCHANGED << img, scaled_width, scaled_height, resized_img, image_x_offset,
                    image_y_offset, canvas, glyph_idx, text_canvas, max_x, fault >>

(***************************************************************************)
(* main: the rotation loop.  Time is the local clock in milliseconds since *)
(* the local midnight that starts day 0.                                   *)
(***************************************************************************)
MaxFiles == 3
MaxDays == 3

SecondMs == 1000
DayMs == 24 * 60 * 60 * SecondMs
\* NaiveTime::from_hms_opt(23, 59, 59), lines 272 and 297
WakeTimeMs == ((23 * 60 + 59) * 60 + 59) * SecondMs

VARIABLES
    main_pc,             \* position in main
    clock,               \* Local::now()
    image_file_names,    \* per file, the input modify_image gets from it
    permutated_indices,
    file_idx,
    stored,              \* last_wallpaper_and_idx.txt: [ts, idx]
    wallpaper,           \* the file position now on the desktop, -1 for none
    shown,               \* file_idx of the latest wallpaper changes, oldest first
    last_change_day, prev_change_day   \* days of the two latest changes

mainVars == << main_pc, clock, image_file_names, permutated_indices, file_idx,
               stored, wallpaper, shown, last_change_day, prev_change_day >>

vars == << pipeVars, mainVars >>

DateOf(ms) == ms \div DayMs
TimeOf(ms) == ms % DayMs

\* Duration::num_seconds: whole seconds, truncated toward zero.
NumSeconds(ms) == IF ms >= 0 THEN ms \div SecondMs ELSE -((-ms) \div SecondMs)
Abs(n) == IF n >= 0 THEN n ELSE -n

\* lines 271-277 and 296-302: the seconds slept when the clock reads `now`.
SleepSeconds(now) == Abs(NumSeconds(WakeTimeMs - TimeOf(now)))

\* The increment without the wrap-around.
NextIdxNoWrap(idx, n) == idx + 1

\* line 293
NextIdx(idx, n) == (idx + 1) % n

\* thread::sleep returns once the duration has passed; what it oversleeps
\* is counted into the time the next modify_image call takes.
SleepLateMs == {0}
\* what one modify_image call takes
ModifyMs == {500, 2000}
\* <<persisted timestamp (seconds), clock at start>>: last change at noon of
\* day 0 or at 00:00 of day 1; start on day 1 at 10:00 or at 23:59:59.4
StartCases ==
    { <<12 * 60 * 60, DayMs + 10 * 60 * 60 * SecondMs>>,
      <<DayMs \div SecondMs, DayMs + 10 * 60 * 60 * SecondMs>>,
      <<DayMs \div SecondMs, DayMs + WakeTimeMs + 400>> }

GoodFile == Input(<<4000, 3000>>, 255, <<GlyphR, GlyphO>>, FALSE)
NarrowFile == Input(<<1, 100>>, 255, <<GlyphR, GlyphO>>, FALSE)
FileLists(n) ==
    { [i \in 1..n |-> IF i = b THEN NarrowFile ELSE GoodFile] : b \in {0, 1} }
Last(s) == s[Len(s)]
N == Len(image_file_names)

\* lines 255-278: read the lists and the persisted state; sleep when the
\* last change was made today.
Startup ==
    /\ main_pc = "start"
    /\ file_idx' = stored.idx
    /\ IF DateOf(stored.ts * SecondMs) = DateOf(clock)
       THEN \E late \in SleepLateMs :
                clock' = clock + SleepSeconds(clock) * SecondMs + late
       ELSE clock' = clock
    /\ main_pc' = "loop"
    /\ UNCHANGED << image_file_names, permutated_indices, stored, wallpaper, shown,
                    last_change_day, prev_change_day >>
    /\ UNCHANGED pipeVars

\* lines 281-290: pick the file and compose it; indexing past either list
\* and every panic of modify_image end the process.
call_modify_image ==
    /\ main_pc = "loop"
    /\ DateOf(clock) < MaxDays
    /\ \E took \in ModifyMs :
          /\ clock' = clock + took
          /\ IF /\ file_idx < Len(permutated_indices)
                /\ permutated_indices[file_idx + 1] < N
                /\ ModifyImageCompletes(
                       image_file_names[permutated_indices[file_idx + 1] + 1])
             THEN main_pc' = "composed"
             ELSE main_pc' = "panicked"
    /\ UNCHANGED << image_file_names, permutated_indices, file_idx, stored,
                    wallpaper, shown, last_change_day, prev_change_day >>
    /\ UNCHANGED pipeVars

\* line 292
set_wallpaper ==
    /\ main_pc = "composed"
    /\ wallpaper' = permutated_indices[file_idx + 1]
    /\ shown' = IF Len(shown) < N THEN Append(shown, file_idx)
                ELSE Append(Tail(shown), file_idx)
    /\ prev_change_day' = last_change_day
    /\ last_change_day' = DateOf(clock)
    /\ main_pc' = "set"
    /\ UNCHANGED << clock, image_file_names, permutated_indices, file_idx, stored >>
    /\ UNCHANGED pipeVars

\* lines 293-294 (24-30)
store_last_wallpaper_change_and_idx ==
    /\ main_pc = "set"
    /\ file_idx' = NextIdx(file_idx, N)
    /\ stored' = [ts |-> clock \div SecondMs, idx |-> NextIdx(file_idx, N)]
    /\ main_pc' = "stored"
    /\ UNCHANGED << clock, image_file_names, permutated_indices, wallpaper, shown,
                    last_change_day, prev_change_day >>
    /\ UNCHANGED pipeVars

\* lines 296-302
Sleep ==
    /\ main_pc = "stored"
    /\ \E late \in SleepLateMs :
          clock' = clock + SleepSeconds(clock) * SecondMs + late
    /\ main_pc' = "loop"
    /\ UNCHANGED << image_file_names, permutated_indices, file_idx, stored,
                    wallpaper, shown, last_change_day, prev_change_day >>
    /\ UNCHANGED pipeVars

(***************************************************************************)
(* Specifications.  Spec is one call of modify_image on every input;       *)
(* SpecMain is main with modify_image taken as one step.                   *)
(***************************************************************************)
PipelineIdle ==
    /\ scaled_width = 0 /\ scaled_height = 0
    /\ resized_img = [w |-> 0, h |-> 0, a |-> 0]
    /\ image_x_offset = 0 /\ image_y_offset = 0
    /\ canvas = << >>
    /\ glyph_idx = 0
    /\ text_canvas = {}
    /\ max_x = 0
    /\ fault = NoFault

Init ==
    /\ pc = "open"
    /\ img \in Inputs
    /\ PipelineIdle
    /\ main_pc = "modify_image"
    /\ clock = 0
    /\ image_file_names = << img >>
    /\ permutated_indices = << 0 >>
    /\ file_idx = 0
    /\ stored = [ts |-> 0, idx |-> 0]
    /\ wallpaper = -1
    /\ shown = << >>
    /\ last_change_day = 0
    /\ prev_change_day = -1

Next ==
    \/ (Scale /\ UNCHANGED mainVars)
    \/ (Resize /\ UNCHANGED mainVars)
    \/ (BuildCanvas /\ UNCHANGED mainVars)
    \/ (PlaceImage /\ UNCHANGED mainVars)
    \/ (\E c \in Corners : Corner(c) /\ UNCHANGED mainVars)
    \/ (DrawGlyph /\ UNCHANGED mainVars)
    \/ (PlaceText /\ UNCHANGED mainVars)
    \/ (Save /\ UNCHANGED mainVars)

Spec == Init /\ [][Next]_vars

InitMain ==
    /\ pc = "idle"
    /\ img = GoodFile
    /\ PipelineIdle
    /\ main_pc = "start"
    /\ \E n \in 1..MaxFiles :
          /\ image_file_names \in FileLists(n)
          /\ permutated_indices \in [1..n -> 0..(n - 1)]
          /\ \E i \in 0..(n - 1) : \E sc \in StartCases :
                /\ stored = [ts |-> sc[1], idx |-> i]
                /\ clock = sc[2]
    /\ file_idx = 0
    /\ wallpaper = -1
    /\ shown = << >>
    /\ last_change_day = DateOf(stored.ts * SecondMs)
    /\ prev_change_day = -1

NextMain ==
    \/ Startup
    \/ call_modify_image
    \/ set_wallpaper
    \/ store_last_wallpaper_change_and_idx
    \/ Sleep

SpecMain == InitMain /\ [][NextMain]_vars

(***************************************************************************)
(* Properties.                                                             *)
(***************************************************************************)
Scaled == pc \notin {"idle", "open"}
Composed == pc \notin {"idle", "open", "scaled", "resized"}
TextLayers == {i \in 1..Len(canvas) : canvas[i].kind = "text"}
CornerLayers == {i \in 1..Len(canvas) : canvas[i].kind \in Corners}
\* The write of the corner loop that has just run, if one has.
JustBlended ==
    IF pc \in {"tr", "br", "bl"} \/ (pc = "text" /\ glyph_idx = 0)
    THEN {i \in CornerLayers : i = Len(canvas)} ELSE {}

\* Canvas coordinates looked at: the canvas corners, the middle of the
\* placed image, a point just inside each rounded corner, the four extreme
\* pixels of the image, and the caption pixels.
SamplePoints ==
    LET x0 == image_x_offset
        y0 == image_y_offset
        x1 == image_x_offset + scaled_width - 1
        y1 == image_y_offset + scaled_height - 1
    IN  { <<0, 0>>, <<CANVAS_WIDTH - 1, CANVAS_HEIGHT - 1>>,
          <<x0 + scaled_width \div 2, y0 + scaled_height \div 2>>,
          <<x0 + CORNER_RADIUS, y0 + CORNER_RADIUS>>,
          <<x0, y0>>, <<x1, y0>>, <<x0, y1>>, <<x1, y1>> }
        \cup { <<canvas[i].x0 + q[1], canvas[i].y0 + q[2]>> :
                   i \in TextLayers, q \in text_canvas \cup {<<0, 0>>} }

\* C1: every pixel of the final canvas has alpha 255, whatever the alpha of
\* the source pixels: background, interior photo pixels, corner regions and
\* caption alike.
C1_FinalCanvasOpaque ==
    pc = "saved" => \A p \in SamplePoints : CanvasPixel(p[1], p[2]).a = 255

\* C2: a scaled image narrower or shorter than the corner radius is rejected
\* before compositing starts, and no corner loop ever computes a coordinate
\* outside the scaled image or the canvas.
C2_SmallImageRejectedBeforeCompositing ==
    /\ Len(canvas) >= 2 =>
           scaled_width >= CORNER_RADIUS /\ scaled_height >= CORNER_RADIUS
    /\ fault.stage \notin Corners

\* C3: the scaled size fits the content box and touches it on at least one
\* axis: scaledW <= 2460, scaledH <= 1280, and one of the two is equal.
C3_FitBoundTight ==
    Scaled =>
        /\ scaled_width <= IMAGE_BOX_WIDTH
        /\ scaled_height <= IMAGE_BOX_HEIGHT
        /\ (scaled_width = IMAGE_BOX_WIDTH \/ scaled_height = IMAGE_BOX_HEIGHT)

\* The exact products s*Ww and s*Hh for s = min(BoxW/Ww, BoxH/Hh), as
\* fractions [p, q]: the binding axis gives the box side itself.
WidthBinds(w, h) == IMAGE_BOX_WIDTH * h <= IMAGE_BOX_HEIGHT * w
ExactW(w, h) ==
    IF WidthBinds(w, h) THEN [p |-> IMAGE_BOX_WIDTH, q |-> 1]
    ELSE [p |-> IMAGE_BOX_HEIGHT * w, q |-> h]
ExactH(w, h) ==
    IF WidthBinds(w, h) THEN [p |-> IMAGE_BOX_WIDTH * h, q |-> w]
    ELSE [p |-> IMAGE_BOX_HEIGHT, q |-> 1]
RoundNearest(e) == (2 * e.p + e.q) \div (2 * e.q)
\* n is the exact product truncated toward zero, where a product within
\* 1/1024 of an integer may land on either side of that integer.
TruncatedWithin(n, e) ==
    LET fl  == e.p \div e.q
        rem == e.p % e.q
    IN  \/ n = fl
        \/ n = fl - 1 /\ 1024 * rem <= e.q
        \/ n = fl + 1 /\ 1024 * (e.q - rem) <= e.q

C5_Centred ==
    Composed =>
        /\ Abs(2 * image_x_offset + scaled_width - CANVAS_WIDTH) <= 2
        /\ Abs(2 * image_y_offset + scaled_height
                 - (CANVAS_HEIGHT - BOTTOM_EXTRA_MARGIN)) <= 2
        /\ Abs(2 * image_y_offset + scaled_height - CANVAS_HEIGHT) > 2

C5_Witness ==
    /\ pc = "canvas"
    /\ scaled_width % 2 = 1 /\ scaled_height % 2 = 1
    /\ scaled_width < IMAGE_BOX_WIDTH /\ scaled_height < IMAGE_BOX_HEIGHT
    /\ image_y_offset > MARGIN

\* Distances from a corner's extreme pixel that are looked at.
SampleDist ==
    { 0, 1, 2, CORNER_RADIUS \div 2 - 1, CORNER_RADIUS \div 2,
      CORNER_RADIUS - 3, CORNER_RADIUS - 2, CORNER_RADIUS - 1 }
\* The image coordinate at distance (dx, dy) from corner c's extreme pixel.
FromCorner(c, dx, dy) ==
    << IF c \in {"tl", "bl"} THEN dx ELSE scaled_width - 1 - dx,
       IF c \in {"tl", "tr"} THEN dy ELSE scaled_height - 1 - dy >>
TileAlpha(t) == corner_mask(t[1], t[2])

\* C6: in each of the four corner regions the mask pixel blended into the
\* image pixel at distance (dx, dy) from that corner's extreme pixel is
\* tile(R-1-dx, R-1-dy), and the mask alpha so applied grows toward the
\* true corner (255 at the extreme pixel) and falls toward the interior
\* (0 at distance R-1 on both axes).  Checked on each corner loop's write
\* when that loop has run.
C6_CornersAreReflections ==
    \A i \in JustBlended : \A dx \in SampleDist : \A dy \in SampleDist :
        LET c   == canvas[i].kind
            at  == FromCorner(c, dx, dy)
            px  == LayerPixel(canvas[i], image_x_offset + at[1], image_y_offset + at[2])
            in1 == FromCorner(c, dx + 1, dy)
            in2 == FromCorner(c, dx, dy + 1)
        IN  /\ Covers(canvas[i], image_x_offset + at[1], image_y_offset + at[2])
            /\ px.tile = << CORNER_RADIUS - 1 - dx, CORNER_RADIUS - 1 - dy >>
            /\ px.a = 255
            /\ dx = 0 /\ dy = 0 => TileAlpha(px.tile) = 255 /\ px.color = "off_white"
            /\ dx = CORNER_RADIUS - 1 /\ dy = CORNER_RADIUS - 1 =>
                   TileAlpha(px.tile) = 0 /\ px.color = "photo"
            /\ dx + 1 < CORNER_RADIUS =>
                   TileAlpha(px.tile) >=
                       TileAlpha(CornerPixel(c, in1[1], in1[2]).tile)
            /\ dy + 1 < CORNER_RADIUS =>
                   TileAlpha(px.tile) >=
                       TileAlpha(CornerPixel(c, in2[1], in2[2]).tile)

C6_Witness ==
    /\ pc = "text"
    /\ {canvas[i].kind : i \in CornerLayers} = Corners
    /\ scaled_width < 2 * CORNER_RADIUS
    /\ CanvasPixel(image_x_offset + scaled_width - 1,
                   image_y_offset + scaled_height - 1).color = "off_white"

\* C7: the caption's left edge is at (canvasW - maxX)/2 and every glyph
\* pixel painted in the strip's rows 0..textSize-1 and columns 0..maxX,
\* column maxX included, is black on the final canvas.
C7_CaptionInkAllCopied ==
    pc = "saved" =>
        \A i \in TextLayers :
            /\ canvas[i].x0 = (CANVAS_WIDTH - max_x) \div 2
            /\ \A q \in text_canvas :
                   q[1] <= max_x /\ q[2] < TEXT_SIZE =>
                       CanvasPixel(canvas[i].x0 + q[1], canvas[i].y0 + q[2]) = Black

\* C8: for any caption, text rendering completes (no panic while drawing
\* glyphs or placing the strip) and every painted strip coordinate lies
\* inside the strip.
C8_AnyCaptionRenders ==
    /\ fault.stage \notin {"draw_glyph", "place_text"}
    /\ \A q \in text_canvas : InStrip(q)

\* C9: the wallpaper is changed at most once per calendar day: no change
\* is made on the day of the change before it (the stored last change at
\* startup included).
C9_OneChangePerDay ==
    main_pc = "set" => last_change_day # prev_change_day

====
